---- MODULE Spec2Model ----
(***************************************************************************)
(* Model of the Windows service control state machine of the daemon        *)
(* package (src/examples/examples2/myservice.go): windowsRecord.Run and    *)
(* serviceHandler.Execute, together with the three parties Execute talks   *)
(* to: the control channel r, the status channel changes and the           *)
(* user-supplied Executable (Start / Run / Stop).                          *)
(***************************************************************************)
EXTENDS Integers, Sequences, FiniteSets, TLC

(* ------------------------------- bounds -------------------------------- *)

\* Number of freely chosen control requests delivered in one activation.
MaxReq == 3

\* Number of ticks the event loop consumes in one activation.
MaxTicks == 1

\* Number of requests the service manager offers on r ahead of their receipt.
MaxOffered == 1

\* Number of status queries of controlService that are counted.
MaxPolls == 2

(* ------------------------- values of the svc API ----------------------- *)

\* The control codes Execute distinguishes, and one it does not know.
KnownCmds == {"Interrogate", "Stop", "Shutdown", "Pause", "Continue"}

OtherCmds == {"ParamChange"}

Cmds == KnownCmds \cup OtherCmds

\* Context values carried by a request (ChangeRequest.Context).
Contexts == {0, 7}

\* Startup arguments handed to Execute.
ArgsSet == {<< >>, <<"a", "b">>}

\* const cmdsAccepted = AcceptStop | AcceptShutdown | AcceptPauseAndContinue
cmdsAccepted == {"AcceptStop", "AcceptShutdown", "AcceptPauseAndContinue"}

\* svc.Status{State: s}: the Accepts field keeps its zero value.
Status(s) == [State |-> s, Accepts |-> {}]

\* svc.Status{State: s, Accepts: cmdsAccepted}
StatusAccepting(s) == [State |-> s, Accepts |-> cmdsAccepted]

\* The request sequence of the spec's scenario:
\* Continue (already running), Pause, Interrogate, Continue, Stop.
Scenario == <<"Continue", "Pause", "Interrogate", "Continue", "Stop">>

\* Two Pause/Continue pairs in a row.
PausePairs == <<"Pause", "Continue", "Pause", "Continue">>

\* Request sequences delivered in full even where longer than MaxReq.
Scripts == {Scenario, PausePairs}

(* -------------------------------- state -------------------------------- *)

VARIABLES
    rpc,        \* position of the windowsRecord method being executed
    result,     \* what that method returned: [msg, err], or "none"
    pc,         \* position of serviceHandler.Execute
    args,       \* Execute's args parameter
    elog,       \* TRUE iff the package variable elog is non-nil
    log,        \* entries written through elog, in order
    r,          \* control requests the service manager offers on r
    received,   \* commands Execute has read from r, in order
    cur,        \* the request c read by the last <-r
    changes,    \* statuses Execute has sent on changes, in order
    calls,      \* Executable operations invoked, in order
    tick,       \* which ticker the local variable tick refers to
    nticks,     \* ticks consumed by the select
    path,       \* the command run, and for Run the branch taken at line 372
    rejected,   \* how much had been sent and called when the service
                \* manager failed to set an announced status
    status,     \* controlService: State of its local variable status
    expired,    \* controlService: TRUE iff time.Now() is after timeout
    polls,      \* controlService: calls of s.Query() made (up to MaxPolls)
    svcExists,  \* Install: the service manager holds a service windows.name
    created     \* Install: m.CreateService of this run succeeded

vars == <<rpc, result, pc, args, elog, log, r, received, cur, changes,
          calls, tick, nticks, path, rejected, status, expired, polls,
          svcExists, created>>

\* What only controlService and Install use.
cliVars == <<status, expired, polls, svcExists, created>>

\* What only Run and Execute use.
svcVars == <<pc, args, elog, log, r, received, cur, changes, calls, tick,
             nticks, rejected>>

\* No announcement has failed.
NoRejection == [changes |-> 0, calls |-> 0]

NoReq == [Cmd |-> "none", Context |-> 0, CurrentStatus |-> Status("Stopped")]

\* An entry of changes: the status sent, and whether it was an echo of
\* c.CurrentStatus (lines 333, 336) or a status Execute built itself.
Sent(st, isEcho) == [State |-> st.State, Accepts |-> st.Accepts, echo |-> isEcho]

StatusOf(e) == [State |-> e.State, Accepts |-> e.Accepts]

\* The status the service manager holds: the last one it read from changes
\* (Status{State: Stopped} before the first).
CurrentStatus ==
    IF changes = << >> THEN Status("Stopped")
    ELSE StatusOf(changes[Len(changes)])

\* The first n elements of s (all of s when it is shorter).
Take(s, n) == SubSeq(s, 1, IF Len(s) < n THEN Len(s) ELSE n)

IsPrefix(s, t) == Len(s) <= Len(t) /\ SubSeq(t, 1, Len(s)) = s

Cmd(q) == q.Cmd

RECURSIVE MapCmd(_)
MapCmd(s) == IF s = << >> THEN << >> ELSE <<Cmd(Head(s))>> \o MapCmd(Tail(s))

\* Commands delivered so far: those already read, then those still offered.
Delivered == received \o MapCmd(r)

(* -------------------------------- logging ------------------------------ *)

\* strings.Join(a, sep)
RECURSIVE Join(_, _)
Join(a, sep) ==
    IF a = << >> THEN ""
    ELSE IF Len(a) = 1 THEN a[1]
    ELSE a[1] \o sep \o Join(Tail(a), sep)

\* Variant: the "-" before the context value is left out.
TestOutput_NoSeparator(a, c) == Join(a, "-") \o ToString(c.Context)

\* testOutput := strings.Join(args, "-"); testOutput += fmt.Sprintf("-%d", c.Context)
TestOutput(a, c) == Join(a, "-") \o "-" \o ToString(c.Context)

\* fmt.Sprintf("unexpected control request #%d", c)
UnexpectedMsg(c) ==
    "unexpected control request #{" \o c.Cmd \o " " \o ToString(c.Context) \o "}"

Info(msg) == [level |-> "Info", id |-> 1, msg |-> msg]

Error(msg) == [level |-> "Error", id |-> 1, msg |-> msg]

\* if elog != nil { elog.<level>(1, msg) }
LogIfEnabled(entry) == IF elog THEN Append(log, entry) ELSE log

(* --------------------------------- Init -------------------------------- *)

Init ==
    /\ rpc = "begin"
    /\ result = "none"
    /\ pc = "idle"
    /\ args \in ArgsSet
    /\ elog \in BOOLEAN
    /\ log = << >>
    /\ r = << >>
    /\ received = << >>
    /\ cur = NoReq
    /\ changes = << >>
    /\ calls = << >>
    /\ tick = "fasttick"
    /\ nticks = 0
    /\ path = "none"
    /\ rejected = NoRejection
    /\ status = "none"
    /\ expired = FALSE
    /\ polls = 0
    /\ svcExists = FALSE
    /\ created = FALSE

(* --------------------------- windowsRecord.Run ------------------------- *)

\* daemon.New(name, name) with name = "xbookApp": the description.
description == "xbookApp"

\* runAction := "Running " + windows.description + ":"
runAction == "Running " \o description \o ":"

\* The package constant failed, appended to the message of a failed action.
failed == " [FAILED]"

\* svc.IsAnInteractiveSession() returns an error.
RunSessionError ==
    /\ rpc = "begin"
    /\ rpc' = "returned"
    /\ result' = [msg |-> runAction \o failed, err |-> "session"]
    /\ UNCHANGED <<pc, args, elog, log, r, received, cur, changes, calls,
                   tick, nticks,
                   path, rejected>>
    /\ UNCHANGED cliVars

\* !interactive: svc.Run(windows.name, &serviceHandler{executable: e})
RunAsService ==
    /\ rpc = "begin"
    /\ rpc' = "svcRun"
    /\ path' = "service"
    /\ UNCHANGED <<result, pc, args, elog, log, r, received, cur, changes,
                   calls, tick, nticks,
                   rejected>>
    /\ UNCHANGED cliVars

\* svc.Run fails before the handler is started.
SvcRunError ==
    /\ rpc = "svcRun"
    /\ pc = "idle"
    /\ rpc' = "returned"
    /\ result' = [msg |-> runAction \o failed, err |-> "svcRun"]
    /\ UNCHANGED <<pc, args, elog, log, r, received, cur, changes, calls,
                   tick, nticks,
                   path, rejected>>
    /\ UNCHANGED cliVars

\* svc.Run returns after the service manager stopped serving the handler;
\* whether it reports an error is the svc package's choice.
SvcRunStopped ==
    /\ rpc = "svcRun"
    /\ rejected # NoRejection
    /\ rpc' = "returned"
    /\ \E e \in {"nil", "svcRun"} :
          result' = [msg |-> runAction \o
                                (IF e = "nil" THEN " completed." ELSE failed),
                     err |-> e]
    /\ UNCHANGED <<pc, args, elog, log, r, received, cur, changes, calls,
                   tick, nticks, path, rejected>>
    /\ UNCHANGED cliVars

\* svc.Run calls the handler's Execute.
SvcRunExecute ==
    /\ rpc = "svcRun"
    /\ pc = "idle"
    /\ pc' = "L314"
    /\ UNCHANGED <<rpc, result, args, elog, log, r, received, cur, changes,
                   calls, tick, nticks,
                   path, rejected>>
    /\ UNCHANGED cliVars

\* Variant: the interactive branch prepares the workload before running it.
RunInTerminal_CallsStart ==
    /\ rpc = "begin"
    /\ rpc' = "eRun"
    /\ calls' = calls \o <<"Start", "Run">>
    /\ path' = "terminal"
    /\ UNCHANGED <<result, pc, args, elog, log, r, received, cur, changes,
                   tick, nticks,
                   rejected>>
    /\ UNCHANGED cliVars

\* interactive: e.Run()
RunInTerminal ==
    /\ rpc = "begin"
    /\ rpc' = "eRun"
    /\ calls' = Append(calls, "Run")
    /\ path' = "terminal"
    /\ UNCHANGED <<result, pc, args, elog, log, r, received, cur, changes,
                   tick, nticks,
                   rejected>>
    /\ UNCHANGED cliVars

\* e.Run() returns; return runAction + " completed.", nil
RunInTerminalReturn ==
    /\ rpc = "eRun"
    /\ rpc' = "returned"
    /\ result' = [msg |-> runAction \o " completed.", err |-> "nil"]
    /\ UNCHANGED <<pc, args, elog, log, r, received, cur, changes, calls,
                   tick, nticks,
                   path, rejected>>
    /\ UNCHANGED cliVars

(* ------------------ windowsRecord.Stop and controlService -------------- *)

\* The service states s.Control and s.Query report.
SvcStates == {"Stopped", "StopPending", "Running"}

\* controlService(windows.name, svc.Stop, svc.Stopped): the target state.
to == "Stopped"

\* stopAction := "Stopping " + windows.description + ":"
stopAction == "Stopping " \o description \o ":"

\* Stop returns (stopAction, getWindowsError(err)) for an error of
\* controlService and (stopAction + " completed.", nil) otherwise.
StopReturns(e) ==
    /\ rpc' = "returned"
    /\ result' = [msg |-> IF e = "nil" THEN stopAction \o " completed."
                          ELSE stopAction,
                  err |-> e]

\* Stop calls controlService.
StopCommand ==
    /\ rpc = "begin"
    /\ rpc' = "L200"
    /\ path' = "stop"
    /\ UNCHANGED <<result, cliVars>>
    /\ UNCHANGED svcVars

\* m, err := mgr.Connect()
CsConnect ==
    /\ rpc = "L200"
    /\ \E ok \in BOOLEAN :
          IF ok THEN rpc' = "L205" /\ UNCHANGED result
          ELSE StopReturns("connect")
    /\ UNCHANGED <<path, cliVars>>
    /\ UNCHANGED svcVars

\* s, err := m.OpenService(name)
CsOpenService ==
    /\ rpc = "L205"
    /\ \E ok \in BOOLEAN :
          IF ok THEN rpc' = "L210" /\ UNCHANGED result
          ELSE StopReturns("could not access service")
    /\ UNCHANGED <<path, cliVars>>
    /\ UNCHANGED svcVars

\* status, err := s.Control(c); timeout := time.Now().Add(10 * time.Second)
CsControl ==
    /\ rpc = "L210"
    /\ \/ \E st \in SvcStates :
             /\ status' = st
             /\ rpc' = "L215"
             /\ UNCHANGED result
       \/ /\ StopReturns("could not send control")
          /\ UNCHANGED status
    /\ expired' = FALSE
    /\ UNCHANGED <<path, polls, svcExists, created>>
    /\ UNCHANGED svcVars

\* for status.State != to { if timeout.Before(time.Now()) { return ... } }
\* and, once the loop is left, return nil
CsLoopTest ==
    /\ rpc = "L215"
    /\ IF status = to THEN StopReturns("nil")
       ELSE IF expired THEN StopReturns("timeout waiting for service")
       ELSE rpc' = "L219" /\ UNCHANGED result
    /\ UNCHANGED <<path, cliVars>>
    /\ UNCHANGED svcVars

\* Variant: a failed query counts as the target state.
CsQuery_ErrorIsSuccess ==
    /\ rpc = "L219"
    /\ \/ \E st \in SvcStates :
             /\ status' = st
             /\ rpc' = "L215"
             /\ UNCHANGED result
       \/ /\ StopReturns("nil")
          /\ UNCHANGED status
    /\ polls' = IF polls < MaxPolls THEN polls + 1 ELSE polls
    /\ UNCHANGED <<path, expired, svcExists, created>>
    /\ UNCHANGED svcVars

\* time.Sleep(300 * time.Millisecond); status, err = s.Query()
CsQuery ==
    /\ rpc = "L219"
    /\ \/ \E st \in SvcStates :
             /\ status' = st
             /\ rpc' = "L215"
             /\ UNCHANGED result
       \/ /\ StopReturns("could not retrieve service status")
          /\ UNCHANGED status
    /\ polls' = IF polls < MaxPolls THEN polls + 1 ELSE polls
    /\ UNCHANGED <<path, expired, svcExists, created>>
    /\ UNCHANGED svcVars

\* Time passes: time.Now() moves beyond timeout.
DeadlinePasses ==
    /\ rpc \in {"L215", "L219"}
    /\ ~expired
    /\ expired' = TRUE
    /\ UNCHANGED <<rpc, result, path, status, polls, svcExists, created>>
    /\ UNCHANGED svcVars

(* --------------------------- windowsRecord.Install --------------------- *)

\* installAction := "Install " + windows.description + ":"
installAction == "Install " \o description \o ":"

\* return installAction, err
InstallFails(e) ==
    /\ rpc' = "returned"
    /\ result' = [msg |-> installAction, err |-> e]

\* Install is called; the service manager may or may not already hold a
\* service named windows.name.
InstallCommand ==
    /\ rpc = "begin"
    /\ rpc' = "L83"
    /\ path' = "install"
    /\ svcExists' \in BOOLEAN
    /\ UNCHANGED <<result, status, expired, polls, created>>
    /\ UNCHANGED svcVars

\* execp, err := execPath()
InstallExecPath ==
    /\ rpc = "L83"
    /\ \E ok \in BOOLEAN :
          IF ok THEN rpc' = "L89" /\ UNCHANGED result
          ELSE InstallFails("execPath")
    /\ UNCHANGED <<path, cliVars>>
    /\ UNCHANGED svcVars

\* m, err := mgr.Connect()
InstallConnect ==
    /\ rpc = "L89"
    /\ \E ok \in BOOLEAN :
          IF ok THEN rpc' = "L95" /\ UNCHANGED result
          ELSE InstallFails("connect")
    /\ UNCHANGED <<path, cliVars>>
    /\ UNCHANGED svcVars

\* s, err := m.OpenService(windows.name); if err == nil { s.Close();
\* return installAction, ErrAlreadyRunning }.  Opening succeeds only for a
\* service that exists, and may fail for one that does.
InstallOpenService ==
    /\ rpc = "L95"
    /\ \E ok \in (IF svcExists THEN BOOLEAN ELSE {FALSE}) :
          IF ok THEN InstallFails("ErrAlreadyRunning")
          ELSE rpc' = "L101" /\ UNCHANGED result
    /\ UNCHANGED <<path, cliVars>>
    /\ UNCHANGED svcVars

\* s, err = m.CreateService(windows.name, execp, mgr.Config{...}, args...)
\* Creating fails when the name is taken, and may fail otherwise.
InstallCreateService ==
    /\ rpc = "L101"
    /\ \E ok \in (IF svcExists THEN {FALSE} ELSE BOOLEAN) :
          IF ok
          THEN /\ svcExists' = TRUE
               /\ created' = TRUE
               /\ rpc' = "L134"
               /\ UNCHANGED result
          ELSE /\ InstallFails("CreateService")
               /\ UNCHANGED <<svcExists, created>>
    /\ UNCHANGED <<path, status, expired, polls>>
    /\ UNCHANGED svcVars

\* s.SetRecoveryActions(r, uint32(86400)), its result unused;
\* err = eventlog.InstallAsEventCreate(...); if err != nil { s.Delete();
\* return installAction, err }; return installAction + " completed.", nil.
\* s.Delete() returns an error that line 138 does not look at.
InstallEventLog ==
    /\ rpc = "L134"
    /\ \/ /\ rpc' = "returned"
          /\ result' = [msg |-> installAction \o " completed.", err |-> "nil"]
          /\ UNCHANGED svcExists
       \/ /\ InstallFails("InstallAsEventCreate")
          /\ \E deleted \in BOOLEAN : svcExists' = ~deleted
    /\ UNCHANGED <<path, status, expired, polls, created>>
    /\ UNCHANGED svcVars

(* ------------------------ the service manager -------------------------- *)

\* The service manager offers a control request on r.  It does so only to
\* a service whose handler was started.
Deliver ==
    /\ rejected = NoRejection
    /\ rpc = "svcRun"
    /\ pc # "idle"
    /\ Len(r) < MaxOffered
    /\ \E c \in Cmds, x \in Contexts :
          /\ \/ Len(Delivered) < MaxReq
             \/ \E sc \in Scripts : IsPrefix(Append(Delivered, c), sc)
          /\ r' = Append(r, [Cmd |-> c, Context |-> x])
    /\ UNCHANGED <<rpc, result, pc, args, elog, log, received, cur, changes,
                   calls, tick, nticks,
                   path, rejected>>
    /\ UNCHANGED cliVars

(* ----------------------- serviceHandler.Execute ------------------------ *)

\* changes <- st.  The service manager reads the status and sets it.  When
\* setting it fails (ok = FALSE) the manager stops serving the handler: it
\* reads no further status and offers no further request.  Execute learns
\* nothing of this: a send on changes has no result.
Send(e, ok) ==
    /\ rejected = NoRejection
    /\ changes' = Append(changes, e)
    /\ rejected' = IF ok THEN NoRejection
                   ELSE [changes |-> Len(changes) + 1, calls |-> Len(calls)]
    /\ r' = IF ok THEN r ELSE << >>

\* Variant: the StartPending announcement is left out.
SendStartPending_Skipped ==
    /\ pc = "L314"
    /\ tick' = "fasttick"
    /\ pc' = "L318"
    /\ UNCHANGED <<rpc, result, args, elog, log, r, received, cur, changes,
                   calls, nticks,
                   path, rejected>>
    /\ UNCHANGED cliVars

\* changes <- svc.Status{State: svc.StartPending}
SendStartPending ==
    /\ pc = "L314"
    /\ \E ok \in BOOLEAN : Send(Sent(Status("StartPending"), FALSE), ok)
    /\ tick' = "fasttick"
    /\ pc' = "L318"
    /\ UNCHANGED <<rpc, result, args, elog, log, received, cur, calls,
                   nticks,
                   path>>
    /\ UNCHANGED cliVars

\* sh.executable.Start()
CallStart ==
    /\ pc = "L318"
    /\ calls' = Append(calls, "Start")
    /\ pc' = "inStart"
    /\ UNCHANGED <<rpc, result, args, elog, log, r, received, cur, changes,
                   tick, nticks,
                   path, rejected>>
    /\ UNCHANGED cliVars

StartReturn ==
    /\ pc = "inStart"
    /\ pc' = "L319"
    /\ UNCHANGED <<rpc, result, args, elog, log, r, received, cur, changes,
                   calls, tick, nticks,
                   path, rejected>>
    /\ UNCHANGED cliVars

\* changes <- svc.Status{State: svc.Running, Accepts: cmdsAccepted}
SendRunning ==
    /\ pc = "L319"
    /\ \E ok \in BOOLEAN : Send(Sent(StatusAccepting("Running"), FALSE), ok)
    /\ pc' = "L320"
    /\ UNCHANGED <<rpc, result, args, elog, log, received, cur, calls,
                   tick, nticks,
                   path>>
    /\ UNCHANGED cliVars

\* sh.executable.Run()
CallRun ==
    /\ pc = "L320"
    /\ calls' = Append(calls, "Run")
    /\ pc' = "inRun"
    /\ UNCHANGED <<rpc, result, args, elog, log, r, received, cur, changes,
                   tick, nticks,
                   path, rejected>>
    /\ UNCHANGED cliVars

RunReturn ==
    /\ pc = "inRun"
    /\ pc' = "L321"
    /\ UNCHANGED <<rpc, result, args, elog, log, r, received, cur, changes,
                   calls, tick, nticks,
                   path, rejected>>
    /\ UNCHANGED cliVars

\* if elog != nil { elog.Info(1, "start-run") }
LogStartRun ==
    /\ pc = "L321"
    /\ log' = LogIfEnabled(Info("start-run"))
    /\ pc' = "select"
    /\ UNCHANGED <<rpc, result, args, elog, r, received, cur, changes, calls,
                   tick, nticks,
                   path, rejected>>
    /\ UNCHANGED cliVars

\* select { case <-tick: }
Tick ==
    /\ pc = "select"
    /\ nticks < MaxTicks
    /\ nticks' = nticks + 1
    /\ UNCHANGED <<rpc, result, pc, args, elog, log, r, received, cur,
                   changes, calls, tick,
                   path, rejected>>
    /\ UNCHANGED cliVars

\* Variant: the select reads a request and forgets it.
Receive_Drops ==
    /\ rejected = NoRejection
    /\ pc = "select"
    /\ r # << >>
    /\ r' = Tail(r)
    /\ UNCHANGED <<rpc, result, pc, args, elog, log, received, cur, changes,
                   calls, tick, nticks, path, rejected>>
    /\ UNCHANGED cliVars

\* select { case c := <-r: }
Receive ==
    /\ rejected = NoRejection
    /\ pc = "select"
    /\ r # << >>
    /\ cur' = [Cmd |-> Head(r).Cmd, Context |-> Head(r).Context,
               CurrentStatus |-> CurrentStatus]
    /\ r' = Tail(r)
    /\ received' = Append(received, Head(r).Cmd)
    /\ pc' = "switch"
    /\ UNCHANGED <<rpc, result, args, elog, log, changes, calls, tick, nticks,
                   path, rejected>>
    /\ UNCHANGED cliVars

\* case svc.Interrogate: changes <- c.CurrentStatus
Echo1 ==
    /\ pc = "switch"
    /\ cur.Cmd = "Interrogate"
    /\ \E ok \in BOOLEAN : Send(Sent(cur.CurrentStatus, TRUE), ok)
    /\ pc' = "L335"
    /\ UNCHANGED <<rpc, result, args, elog, log, received, cur, calls,
                   tick, nticks,
                   path>>
    /\ UNCHANGED cliVars

\* Variant: the second echo is left out.
Echo2_Omitted ==
    /\ pc = "L335"
    /\ pc' = "select"
    /\ UNCHANGED <<rpc, result, args, elog, log, r, received, cur, changes,
                   calls, tick, nticks,
                   path, rejected>>
    /\ UNCHANGED cliVars

\* time.Sleep(100 * time.Millisecond); changes <- c.CurrentStatus
Echo2 ==
    /\ pc = "L335"
    /\ \E ok \in BOOLEAN : Send(Sent(cur.CurrentStatus, TRUE), ok)
    /\ pc' = "select"
    /\ UNCHANGED <<rpc, result, args, elog, log, received, cur, calls,
                   tick, nticks,
                   path>>
    /\ UNCHANGED cliVars

\* Variant: the call of the workload's Stop sits inside "if elog != nil".
LogStop_StopInsideIf ==
    /\ pc = "switch"
    /\ cur.Cmd \in {"Stop", "Shutdown"}
    /\ log' = LogIfEnabled(Info(TestOutput(args, cur)))
    /\ pc' = IF elog THEN "L344" ELSE "select"
    /\ UNCHANGED <<rpc, result, args, elog, r, received, cur, changes, calls,
                   tick, nticks, path, rejected>>
    /\ UNCHANGED cliVars

\* case svc.Stop, svc.Shutdown: if elog != nil { elog.Info(1, testOutput) }
LogStop ==
    /\ pc = "switch"
    /\ cur.Cmd \in {"Stop", "Shutdown"}
    /\ log' = LogIfEnabled(Info(TestOutput(args, cur)))
    /\ pc' = "L344"
    /\ UNCHANGED <<rpc, result, args, elog, r, received, cur, changes, calls,
                   tick, nticks,
                   path, rejected>>
    /\ UNCHANGED cliVars

\* sh.executable.Stop()
CallStop ==
    /\ pc = "L344"
    /\ calls' = Append(calls, "Stop")
    /\ pc' = "inStop"
    /\ UNCHANGED <<rpc, result, args, elog, log, r, received, cur, changes,
                   tick, nticks,
                   path, rejected>>
    /\ UNCHANGED cliVars

\* The unlabelled break of line 345 terminates the innermost enclosing
\* statement, which is the switch: control leaves the switch and the
\* select, and the for statement starts its next iteration.  (The labelled
\* "break loop" is commented out on line 346.)
BreakTarget == "select"

\* Variant: StopPending is announced inside the Stop case.
StopReturn_AnnouncesStopPending ==
    /\ pc = "inStop"
    /\ \E ok \in BOOLEAN : Send(Sent(Status("StopPending"), FALSE), ok)
    /\ pc' = BreakTarget
    /\ UNCHANGED <<rpc, result, args, elog, log, received, cur, calls, tick,
                   nticks, path>>
    /\ UNCHANGED cliVars

\* sh.executable.Stop() returns; break
StopReturn ==
    /\ pc = "inStop"
    /\ pc' = BreakTarget
    /\ UNCHANGED <<rpc, result, args, elog, log, r, received, cur, changes,
                   calls, tick, nticks,
                   path, rejected>>
    /\ UNCHANGED cliVars

\* Variant: Pause announces Paused and keeps the ticker.
HandlePause_KeepsTick ==
    /\ pc = "switch"
    /\ cur.Cmd = "Pause"
    /\ \E ok \in BOOLEAN : Send(Sent(StatusAccepting("Paused"), FALSE), ok)
    /\ pc' = "select"
    /\ UNCHANGED <<rpc, result, args, elog, log, received, cur, calls, tick,
                   nticks,
                   path>>
    /\ UNCHANGED cliVars

\* Variant: Paused is announced without the accepted commands.
HandlePause_NoAccepts ==
    /\ pc = "switch"
    /\ cur.Cmd = "Pause"
    /\ \E ok \in BOOLEAN : Send(Sent(Status("Paused"), FALSE), ok)
    /\ tick' = "slowtick"
    /\ pc' = "select"
    /\ UNCHANGED <<rpc, result, args, elog, log, received, cur, calls,
                   nticks,
                   path>>
    /\ UNCHANGED cliVars

\* case svc.Pause: changes <- Status{Paused, cmdsAccepted}; tick = slowtick
HandlePause ==
    /\ pc = "switch"
    /\ cur.Cmd = "Pause"
    /\ \E ok \in BOOLEAN : Send(Sent(StatusAccepting("Paused"), FALSE), ok)
    /\ tick' = "slowtick"
    /\ pc' = "select"
    /\ UNCHANGED <<rpc, result, args, elog, log, received, cur, calls,
                   nticks,
                   path>>
    /\ UNCHANGED cliVars

\* Variant: Continue announces Running and keeps the ticker.
HandleContinue_KeepsTick ==
    /\ pc = "switch"
    /\ cur.Cmd = "Continue"
    /\ \E ok \in BOOLEAN : Send(Sent(StatusAccepting("Running"), FALSE), ok)
    /\ pc' = "select"
    /\ UNCHANGED <<rpc, result, args, elog, log, received, cur, calls, tick,
                   nticks,
                   path>>
    /\ UNCHANGED cliVars

\* case svc.Continue: changes <- Status{Running, cmdsAccepted}; tick = fasttick
HandleContinue ==
    /\ pc = "switch"
    /\ cur.Cmd = "Continue"
    /\ \E ok \in BOOLEAN : Send(Sent(StatusAccepting("Running"), FALSE), ok)
    /\ tick' = "fasttick"
    /\ pc' = "select"
    /\ UNCHANGED <<rpc, result, args, elog, log, received, cur, calls,
                   nticks,
                   path>>
    /\ UNCHANGED cliVars

\* Variant: "continue loop" written as "break loop".
ContinueLoopTarget_Breaks == "L361"

\* continue loop (line 357): the for statement starts its next iteration.
ContinueLoopTarget == "select"

\* Variant: an unrecognized code announces Running, as Continue does.
HandleDefault_Announces ==
    /\ pc = "switch"
    /\ cur.Cmd \notin KnownCmds
    /\ log' = LogIfEnabled(Error(UnexpectedMsg(cur)))
    /\ \E ok \in BOOLEAN : Send(Sent(StatusAccepting("Running"), FALSE), ok)
    /\ pc' = "select"
    /\ UNCHANGED <<rpc, result, args, elog, received, cur, calls, tick,
                   nticks,
                   path>>
    /\ UNCHANGED cliVars

\* default: if elog != nil { elog.Error(1, ...) }; continue loop
HandleDefault ==
    /\ pc = "switch"
    /\ cur.Cmd \notin KnownCmds
    /\ log' = LogIfEnabled(Error(UnexpectedMsg(cur)))
    /\ pc' = ContinueLoopTarget
    /\ UNCHANGED <<rpc, result, args, elog, r, received, cur, changes, calls,
                   tick, nticks,
                   path, rejected>>
    /\ UNCHANGED cliVars

Next ==
    \/ RunSessionError
    \/ RunAsService
    \/ SvcRunError
    \/ SvcRunExecute
    \/ RunInTerminal
    \/ RunInTerminalReturn
    \/ Deliver
    \/ SendStartPending
    \/ CallStart
    \/ StartReturn
    \/ SendRunning
    \/ CallRun
    \/ RunReturn
    \/ LogStartRun
    \/ Tick
    \/ Receive
    \/ Echo1
    \/ Echo2
    \/ LogStop
    \/ CallStop
    \/ StopReturn
    \/ HandlePause
    \/ HandleContinue
    \/ HandleDefault
    \/ SvcRunStopped
    \/ StopCommand
    \/ CsConnect
    \/ CsOpenService
    \/ CsControl
    \/ CsLoopTest
    \/ CsQuery
    \/ DeadlinePasses
    \/ InstallCommand
    \/ InstallExecPath
    \/ InstallConnect
    \/ InstallOpenService
    \/ InstallCreateService
    \/ InstallEventLog

Spec == Init /\ [][Next]_vars

(* ----------------------------- fairness -------------------------------- *)

\* The steps the goroutine running Execute takes by itself.
ExecuteStep ==
    \/ SendStartPending \/ CallStart \/ SendRunning \/ CallRun
    \/ LogStartRun \/ Receive \/ Echo1 \/ Echo2 \/ LogStop \/ CallStop
    \/ HandlePause \/ HandleContinue \/ HandleDefault

\* The steps controlService takes by itself.
CsStep == CsConnect \/ CsOpenService \/ CsControl \/ CsLoopTest \/ CsQuery

\* The Go scheduler keeps running Execute; the Executable's Start and Stop
\* return; nothing is assumed of how long the Executable's Run takes.
\* controlService keeps running, its calls return, and time passes.
FairSpec ==
    /\ Init
    /\ [][Next]_vars
    /\ WF_vars(ExecuteStep)
    /\ WF_vars(StartReturn)
    /\ WF_vars(StopReturn)
    /\ WF_vars(CsStep)
    /\ WF_vars(DeadlinePasses)

(* ------------------------ vocabulary of the claims --------------------- *)

StartupPcs == {"idle", "L314", "L318", "inStart", "L319", "L320", "inRun",
               "L321"}

\* Positions inside the for statement of lines 325-360.
LoopPcs == {"select", "switch", "L335", "L344", "inStop"}

\* Positions at which the request in cur is still being handled.
HandlingPcs == LoopPcs \ {"select"}

TermCmds == {"Stop", "Shutdown"}

TermReceived == \E i \in 1..Len(received) : received[i] \in TermCmds

RECURSIVE Count(_, _)
Count(s, x) ==
    IF s = << >> THEN 0
    ELSE (IF Head(s) = x THEN 1 ELSE 0) + Count(Tail(s), x)

\* The states of the statuses Execute built itself, echoes left out.
RECURSIVE OwnStates(_)
OwnStates(ch) ==
    IF ch = << >> THEN << >>
    ELSE (IF Head(ch).echo THEN << >> ELSE <<Head(ch).State>>)
         \o OwnStates(Tail(ch))

RECURSIVE EchoCount(_)
EchoCount(ch) ==
    IF ch = << >> THEN 0
    ELSE (IF Head(ch).echo THEN 1 ELSE 0) + EchoCount(Tail(ch))

\* One Paused per Pause and one Running per Continue, in request order.
RECURSIVE PauseContinueStates(_)
PauseContinueStates(s) ==
    IF s = << >> THEN << >>
    ELSE (IF Head(s) = "Pause" THEN <<"Paused">>
          ELSE IF Head(s) = "Continue" THEN <<"Running">>
          ELSE << >>) \o PauseContinueStates(Tail(s))

\* The two announcements of the startup protocol.
StartupChanges ==
    <<Sent(Status("StartPending"), FALSE),
      Sent(StatusAccepting("Running"), FALSE)>>

\* received ends in its first and only Stop or Shutdown.
EndsInTerm ==
    /\ received # << >>
    /\ received[Len(received)] \in TermCmds
    /\ \A i \in 1..(Len(received) - 1) : received[i] \notin TermCmds

(* -------------------------------- claims ------------------------------- *)

\* C1: for every request sequence that ends in Stop or Shutdown, once that
\* last request is no longer being handled, the states Execute has sent on
\* changes (Interrogate echoes ignored) are StartPending, Running, one
\* Paused per Pause and one Running per Continue in request order, and
\* StopPending as the last element.
C1_AnnouncementOrder ==
    (EndsInTerm /\ pc \notin HandlingPcs) =>
        OwnStates(changes) =
            <<"StartPending", "Running">> \o PauseContinueStates(received)
                \o <<"StopPending">>

\* C2: once a Stop or Shutdown request has been received, Execute does not
\* go back to waiting for further ticks or control requests.
C2_NoWaitAfterStop == ~(TermReceived /\ pc = "select")

\* C3: the workload's Stop operation is invoked at most once in any
\* execution of Execute.
C3_StopAtMostOnce == Count(calls, "Stop") <= 1

\* C4: after Running has been announced, a request offered on the control
\* channel is eventually received by Execute, whether or not the workload's
\* Run operation returns.
C4_ResponsiveWhileRunBlocks ==
    (Len(changes) >= 2 /\ r # << >>) ~> (pc = "switch")

\* C5: startup order of Execute: StartPending is sent before any workload
\* operation is invoked; Start is invoked and has returned before Running
\* is sent; Running, with the accepted commands, is sent before Run is
\* invoked; no control request is read before Run has been invoked.
C5_StartupOrder ==
    rpc = "svcRun" =>
        /\ IsPrefix(Take(changes, 2), StartupChanges)
        /\ IsPrefix(Take(calls, 2), <<"Start", "Run">>)
        /\ calls # << >> => Len(changes) >= 1
        /\ Len(changes) >= 2 =>
              Len(calls) >= 1 /\ pc \notin {"L314", "L318", "inStart"}
        /\ Len(calls) >= 2 => Len(changes) >= 2
        /\ received # << >> => Len(calls) >= 2

C5_Witness ==
    /\ rpc = "svcRun"
    /\ received # << >>
    /\ Len(changes) >= 2
    /\ Len(calls) >= 2

\* C6: Execute is outside its event loop only before the loop was entered
\* or after a Stop or Shutdown request was received: a Tick, Interrogate,
\* Pause, Continue or unrecognized request never makes the loop exit.
C6_ExitOnlyOnStop ==
    (pc \notin StartupPcs /\ ~TermReceived) => pc \in LoopPcs

C6_Witness ==
    /\ pc = "select"
    /\ nticks >= 1
    /\ ~TermReceived
    /\ Len(received) = 3
    /\ \E i \in 1..3 : received[i] \in OtherCmds
    /\ \E i \in 1..3 : received[i] \in {"Pause", "Continue", "Interrogate"}

\* C7: an Interrogate request makes Execute send exactly two statuses, both
\* equal to the request's CurrentStatus, which is the status in effect just
\* before the request arrived; they are adjacent in changes; the service
\* state and the tick cadence are as they were before the request.
C7_InterrogateStep ==
    (pc \in {"switch", "L335"} /\ cur.Cmd = "Interrogate" /\ pc' # pc) =>
        /\ changes' = Append(changes, Sent(cur.CurrentStatus, TRUE))
        /\ StatusOf(changes[Len(changes)]) = cur.CurrentStatus
        /\ tick' = tick
        /\ pc' = (IF pc = "switch" THEN "L335" ELSE "select")

C7_EchoesPaired ==
    /\ pc = "L335" => cur.Cmd = "Interrogate" /\ changes[Len(changes)].echo
    /\ EchoCount(changes) =
          2 * Count(received, "Interrogate")
             - (IF cur.Cmd = "Interrogate" /\ pc = "switch" THEN 2
                ELSE IF pc = "L335" THEN 1 ELSE 0)

C7_InterrogateEchoesTwice == []C7_EchoesPaired /\ [][C7_InterrogateStep]_vars

C7_Witness ==
    /\ received = <<"Pause", "Interrogate">>
    /\ pc = "select"
    /\ Len(changes) = 5
    /\ changes[4] = Sent(StatusAccepting("Paused"), TRUE)
    /\ changes[5] = Sent(StatusAccepting("Paused"), TRUE)
    /\ tick = "slowtick"

\* received is N unrecognized codes followed by one Stop, for some N >= 0.
UnrecognizedThenStop ==
    /\ received # << >>
    /\ received[Len(received)] = "Stop"
    /\ \A i \in 1..(Len(received) - 1) : received[i] \in OtherCmds

\* C8: handling an unrecognized code changes neither the announcements, the
\* workload calls nor the tick cadence and keeps Execute in its loop; so
\* after N unrecognized codes and a Stop, for every N >= 0 (N = 0 being Stop
\* alone), the announcements and workload calls are the same.
C8_UnrecognizedStep ==
    (pc = "switch" /\ cur.Cmd \notin KnownCmds /\ pc' # pc) =>
        /\ changes' = changes
        /\ calls' = calls
        /\ tick' = tick
        /\ pc' = "select"

C8_SameAsStopAlone ==
    (UnrecognizedThenStop /\ pc = "select") =>
        /\ changes = StartupChanges
        /\ calls = <<"Start", "Run", "Stop">>
        /\ tick = "fasttick"

C8_UnrecognizedIgnored == []C8_SameAsStopAlone /\ [][C8_UnrecognizedStep]_vars

C8_Witness ==
    /\ received = <<"ParamChange", "ParamChange", "Stop">>
    /\ pc = "select"
    /\ calls = <<"Start", "Run", "Stop">>

\* Run took the interactive branch (line 383).
Interactive == path = "terminal"

\* C9: on the interactive path of Run the workload's Run is invoked exactly
\* once, no status is announced, no control request is read, Start and Stop
\* are never invoked, and Run returns the " completed." message with a nil
\* error once the workload's Run has returned.
C9_InteractivePath ==
    Interactive =>
        /\ calls = <<"Run">>
        /\ changes = << >>
        /\ received = << >>
        /\ r = << >>
        /\ pc = "idle"
        /\ rpc \in {"eRun", "returned"}
        /\ rpc = "returned" =>
              result = [msg |-> runAction \o " completed.", err |-> "nil"]
        /\ rpc = "eRun" => result = "none"

C9_Witness ==
    /\ rpc = "returned"
    /\ result = [msg |-> "Running xbookApp: completed.", err |-> "nil"]
    /\ calls = <<"Run">>

\* C10: for the requests Continue, Pause, Interrogate, Continue, Stop, once
\* the Stop is no longer being handled Execute has left the loop and the
\* announcements after the two startup ones are exactly Running, Paused,
\* Paused (echo), Paused (echo), Running, StopPending.
C10_ScenarioAnnouncements ==
    (received = Scenario /\ pc \notin HandlingPcs) =>
        /\ pc \notin LoopPcs
        /\ changes = StartupChanges \o
              <<Sent(StatusAccepting("Running"), FALSE),
                Sent(StatusAccepting("Paused"), FALSE),
                Sent(StatusAccepting("Paused"), TRUE),
                Sent(StatusAccepting("Paused"), TRUE),
                Sent(StatusAccepting("Running"), FALSE),
                Sent(Status("StopPending"), FALSE)>>

\* C11: when an announcement to the service manager fails, the run is
\* aborted at once: Execute sends no further announcement and makes no
\* further workload call, and Run returns the error with the failed
\* message; an error of svc.Run is likewise returned as a failure.
C11_AbortOnFailedAnnouncement ==
    /\ rejected # NoRejection =>
          /\ Len(changes) = rejected.changes
          /\ Len(calls) = rejected.calls
          /\ rpc = "returned" =>
                result.err # "nil" /\ result.msg = runAction \o failed
    /\ (path = "service" /\ rpc = "returned" /\ result.err # "nil") =>
          result.msg = runAction \o failed

\* The state of the last status Execute built itself.
LastOwnState == OwnStates(changes)[Len(OwnStates(changes))]

\* C12: in every state of the event loop the active ticker is the slow one
\* exactly when the last status the controller itself announced is Paused,
\* and the fast one otherwise; only the handling of Pause and Continue
\* changes the ticker.
C12_CadenceMatchesState ==
    pc \in LoopPcs => (tick = "slowtick" <=> LastOwnState = "Paused")

C12_CadenceStep ==
    tick' # tick => pc = "switch" /\ cur.Cmd \in {"Pause", "Continue"}

C13_PauseContinueRestores ==
    (pc = "select" /\ Len(received) >= 2
       /\ received[Len(received) - 1] = "Pause"
       /\ received[Len(received)] = "Continue") =>
        /\ tick = "fasttick"
        /\ changes[Len(changes)] = Sent(StatusAccepting("Running"), FALSE)
        /\ changes[Len(changes) - 1] = Sent(StatusAccepting("Paused"), FALSE)
        /\ CurrentStatus.Accepts = cmdsAccepted

C13_Witness ==
    /\ received = PausePairs
    /\ pc = "select"
    /\ tick = "fasttick"
    /\ Len(changes) = 6

TermCount == Count(received, "Stop") + Count(received, "Shutdown")

\* The entries of log written by the Stop/Shutdown case.
RECURSIVE StopLogCount(_)
StopLogCount(l) ==
    IF l = << >> THEN 0
    ELSE (IF Head(l).level = "Info" /\ Head(l).msg # "start-run" THEN 1 ELSE 0)
         + StopLogCount(Tail(l))

\* The diagnostic the claim expects for each startup argument list.
ExpectedDiag(a, x) ==
    IF a = <<"a", "b">> THEN (IF x = 7 THEN "a-b-7" ELSE "a-b-0")
    ELSE (IF x = 7 THEN "-7" ELSE "-0")

\* C16: with the logging sink configured, each Stop or Shutdown request
\* writes exactly one entry, equal to the startup arguments joined by "-"
\* followed by "-" and the request's context value ("a-b-7" for arguments
\* a, b and context 7), and writes it before the workload's Stop is invoked.
C16_StopDiagnostic ==
    elog =>
        /\ StopLogCount(log) =
              TermCount - (IF pc = "switch" /\ cur.Cmd \in TermCmds
                           THEN 1 ELSE 0)
        /\ Count(calls, "Stop") =
              TermCount - (IF pc \in {"switch", "L344"} /\ cur.Cmd \in TermCmds
                           THEN 1 ELSE 0)
        /\ pc = "L344" =>
              log[Len(log)] = [level |-> "Info", id |-> 1,
                               msg |-> ExpectedDiag(args, cur.Context)]

C16_Witness ==
    /\ elog
    /\ args = <<"a", "b">>
    /\ cur.Cmd = "Shutdown"
    /\ cur.Context = 7
    /\ pc = "L344"
    /\ log[Len(log)].msg = "a-b-7"
    /\ Count(calls, "Stop") = 0

\* C18: every Running or Paused status the controller itself announces
\* carries the accepted commands Stop, Shutdown, Pause and Continue, and
\* every StartPending or StopPending it announces carries none.
C18_AcceptedCommands ==
    \A i \in 1..Len(changes) :
        ~changes[i].echo =>
            /\ changes[i].State \in {"StartPending", "Running", "Paused",
                                     "StopPending"}
            /\ changes[i].State \in {"Running", "Paused"} =>
                  changes[i].Accepts = cmdsAccepted
            /\ changes[i].State \in {"StartPending", "StopPending"} =>
                  changes[i].Accepts = {}

C18_Witness ==
    /\ received = <<"Pause", "Continue", "Pause">>
    /\ pc = "select"
    /\ OwnStates(changes) =
          <<"StartPending", "Running", "Paused", "Running", "Paused">>
    /\ \A i \in 2..5 : changes[i].Accepts = cmdsAccepted

\* What a request adds to the announcements, given the last one.
AnnouncedFor(c, last) ==
    IF c = "Interrogate" THEN <<Sent(last, TRUE), Sent(last, TRUE)>>
    ELSE IF c = "Pause" THEN <<Sent(StatusAccepting("Paused"), FALSE)>>
    ELSE IF c = "Continue" THEN <<Sent(StatusAccepting("Running"), FALSE)>>
    ELSE << >>

\* The announcements after the requests reqs, starting from acc.
RECURSIVE AnnouncedAfter(_, _)
AnnouncedAfter(acc, reqs) ==
    IF reqs = << >> THEN acc
    ELSE AnnouncedAfter(
            acc \o AnnouncedFor(Head(reqs), StatusOf(acc[Len(acc)])),
            Tail(reqs))

\* The workload calls after the requests reqs.
RECURSIVE CalledAfter(_)
CalledAfter(reqs) ==
    IF reqs = << >> THEN <<"Start", "Run">>
    ELSE CalledAfter(SubSeq(reqs, 1, Len(reqs) - 1))
         \o (IF reqs[Len(reqs)] \in TermCmds THEN <<"Stop">> ELSE << >>)

\* C15: logging does not influence control flow.  Whenever Execute waits in
\* its select, the announcements and the workload calls are a function of
\* the requests received alone, the same with and without a logging sink,
\* and Execute is in its loop in both cases; the statements that log move
\* on to the same position whether or not the sink exists and change
\* nothing but the log; without a sink nothing is ever logged.
C15_OutputsFromRequests ==
    /\ pc = "select" =>
          /\ changes = AnnouncedAfter(StartupChanges, received)
          /\ calls = CalledAfter(received)
    /\ pc \notin StartupPcs => pc \in LoopPcs
    /\ ~elog => log = << >>

C15_LogStep ==
    /\ (pc = "L321" /\ pc' # pc) => pc' = "select"
    /\ (pc = "switch" /\ cur.Cmd \in TermCmds /\ pc' # pc) => pc' = "L344"
    /\ (pc = "switch" /\ cur.Cmd \notin KnownCmds /\ pc' # pc) => pc' = "select"
    /\ log' # log =>
          elog /\ changes' = changes /\ calls' = calls /\ tick' = tick

C15_LoggingIndependent == []C15_OutputsFromRequests /\ [][C15_LogStep]_vars

C15_Witness ==
    /\ ~elog
    /\ received = <<"ParamChange", "Interrogate", "Shutdown">>
    /\ pc = "select"
    /\ log = << >>
    /\ calls = <<"Start", "Run", "Stop">>
    /\ Len(changes) = 4

\* C17: control requests are handled one at a time, in the order offered,
\* and none is dropped: a request leaves r only by being read, as the head
\* of r, while Execute waits in its select, when everything the earlier
\* requests cause has been sent and called (or r is emptied by the service
\* manager when it stops serving the handler); and while the loop runs an
\* offered request is eventually read, however ticks interleave.
C17_ReceiveStep ==
    /\ received' # received =>
          /\ pc = "select" /\ pc' = "switch"
          /\ r # << >>
          /\ received' = Append(received, r[1].Cmd)
          /\ cur'.Cmd = r[1].Cmd /\ cur'.Context = r[1].Context
          /\ r' = Tail(r)
          /\ changes = AnnouncedAfter(StartupChanges, received)
          /\ calls = CalledAfter(received)
    /\ r' # r =>
          \/ received' # received
          \/ Len(r') = Len(r) + 1 /\ SubSeq(r', 1, Len(r)) = r
          \/ r' = << >> /\ rejected = NoRejection /\ rejected' # NoRejection

C17_EventuallyReceived ==
    (pc \in LoopPcs /\ r # << >>) ~> (r = << >> \/ rejected # NoRejection)

CsErrors == {"connect", "could not access service", "could not send control",
             "timeout waiting for service",
             "could not retrieve service status"}

\* C19: controlService returns nil only when the state it last got from
\* s.Control or s.Query is the target state; it returns the timeout error
\* only after the deadline passed with another state; while neither holds
\* and no call fails it keeps querying; every other way out is an error of
\* connecting, opening, controlling or querying; and it always returns
\* once the deadline passes.
C19_ReturnsNilOnlyAtTarget ==
    (path = "stop" /\ rpc = "returned") =>
        /\ result.err = "nil" <=> result.msg = stopAction \o " completed."
        /\ result.err = "nil" => status = to
        /\ result.err # "nil" => result.err \in CsErrors
        /\ result.err = "timeout waiting for service" =>
              expired /\ status \in SvcStates \ {to}
        /\ result.err \in {"connect", "could not access service",
                           "could not send control"} =>
              status = "none" /\ polls = 0

C19_PollStep ==
    (rpc = "L215" /\ rpc' # rpc /\ status # to /\ ~expired) => rpc' = "L219"

C19_Terminates == (path = "stop") ~> (rpc = "returned")

C19_ControlService ==
    /\ []C19_ReturnsNilOnlyAtTarget
    /\ [][C19_PollStep]_vars
    /\ C19_Terminates

C19_Witness ==
    /\ path = "stop"
    /\ rpc = "returned"
    /\ result = [msg |-> "Stopping xbookApp: completed.", err |-> "nil"]
    /\ status = "Stopped"
    /\ polls = 2
    /\ expired

\* C20: Install is all-or-nothing for the service definition: when a
\* service of the name is found it returns ErrAlreadyRunning and has created
\* nothing, and whenever it returns an error no service created by this
\* Install is left behind.
C20_InstallAllOrNothing ==
    (path = "install" /\ rpc = "returned") =>
        /\ result.err = "ErrAlreadyRunning" => svcExists /\ ~created
        /\ result.err # "nil" => ~(created /\ svcExists)

====
